---- MODULE Spec2Model ----
(***************************************************************************)
(* Model of the ai-calendar-planner web application: the free-slot finder  *)
(* (app/planner.py), the conversation log and the request handler          *)
(* (app/routes.py), the remote parser fallback and the local parser        *)
(* (app/deepseek_parser.py) and the event committer (app/calendar_api.py). *)
(*                                                                         *)
(* Times are minutes counted from midnight of the date a call is about     *)
(* (negative: the day before; above 1440: the day after).  Every time the  *)
(* model draws is a multiple of 15 minutes.                                *)
(***************************************************************************)
EXTENDS Integers, Sequences, FiniteSets, TLC

VARIABLES
    events,         \* the calendar's answer for the day: the ordered event list
    duration_mins,  \* find_free_slot's duration_mins argument
    calls,          \* the find_free_slot calls made so far: <<[at, readOk, result]>>
    has_history,    \* 'conversation_history' in session
    conversation_history,  \* session['conversation_history']
    appended,       \* every turn appended since the history was last cleared
    api_key,        \* whether TOGETHER_API_KEY is set
    response,       \* what the oracle request yields
    ret,            \* call_deepseek's outcome, once it was called
    task,           \* the text handed to the local parsers, as its words
    parsed,         \* the local parsers' outcomes so far
    pc,             \* where routes.index stands in handling a POST
    now,            \* datetime.datetime.now() during the request
    req,            \* index's locals: title, start_time, duration, ...
    message,        \* the message index renders
    insert_calls    \* the calls of service.events().insert(...).execute() made

slotVars == <<events, duration_mins, calls>>
convVars == <<has_history, conversation_history, appended>>
oracleVars == <<api_key, response, ret>>
textVars == <<task, parsed>>
requestVars == <<pc, now, req, message, insert_calls>>

vars == <<events, duration_mins, calls, has_history, conversation_history, appended,
          api_key, response, ret, task, parsed, pc, now, req, message, insert_calls>>

Max(a, b) == IF a >= b THEN a ELSE b

(***************************************************************************)
(* Free-Slot Finder: planner.find_free_slot                                *)
(***************************************************************************)

\* Variant: the working day starts at 09:00
WindowStartAtNine == 9 * 60

\* datetime.time(8, 0) and datetime.time(20, 0) of the requested date
WindowStart == 8 * 60
WindowEnd == 20 * 60

\* What dateparser.parse makes of an event's start or end string: an aware
\* datetime ('dateTime' carries an offset), a naive one (an all-day event's
\* 'date'), or None.
DateTime(t) == [kind |-> "dateTime", t |-> t]
DateOnly(t) == [kind |-> "date", t |-> t]
Unparsed == [kind |-> "none", t |-> 0]

\* An event with a start and an end 'dateTime'
Ev(s, e) == [start |-> DateTime(s), end |-> DateTime(e)]

\* find_free_slot's outcomes: a datetime, or None
Slot(t) == [kind |-> "slot", t |-> t]
NoSlot == [kind |-> "none", t |-> 0]
Raised == [kind |-> "raised", t |-> 0]

\* Variant: the cursor is set to the event's end, without max()
RECURSIVE ScanEventsNoMax(_, _, _, _)
ScanEventsNoMax(evs, i, current_time, dur) ==
    IF i > Len(evs)
    THEN IF WindowEnd - current_time >= dur THEN Slot(current_time) ELSE NoSlot
    ELSE LET event_start == evs[i].start
             event_end == evs[i].end
         IN  IF event_start.kind = "date" THEN Raised
             ELSE IF event_start.kind = "dateTime" /\ event_start.t - current_time >= dur
                  THEN Slot(current_time)
             ELSE IF event_end.kind = "date" THEN Raised
             ELSE ScanEventsNoMax(evs, i + 1,
                                  IF event_end.kind = "dateTime"
                                  THEN event_end.t
                                  ELSE current_time,
                                  dur)

\* Variant: the gap in seconds is compared with the duration in minutes
RECURSIVE ScanEventsSecondsGap(_, _, _, _)
ScanEventsSecondsGap(evs, i, current_time, dur) ==
    IF i > Len(evs)
    THEN IF (WindowEnd - current_time) * 60 >= dur THEN Slot(current_time) ELSE NoSlot
    ELSE LET event_start == evs[i].start
             event_end == evs[i].end
         IN  IF event_start.kind = "date" THEN Raised
             ELSE IF event_start.kind = "dateTime"
                     /\ (event_start.t - current_time) * 60 >= dur
                  THEN Slot(current_time)
             ELSE IF event_end.kind = "date" THEN Raised
             ELSE ScanEventsSecondsGap(evs, i + 1,
                                       IF event_end.kind = "dateTime"
                                       THEN Max(current_time, event_end.t)
                                       ELSE current_time,
                                       dur)

\* The for loop over the events and the check after it.  Subtracting or
\* comparing the aware cursor and a naive datetime raises TypeError.
RECURSIVE ScanEvents(_, _, _, _)
ScanEvents(evs, i, current_time, dur) ==
    IF i > Len(evs)
    THEN IF WindowEnd - current_time >= dur THEN Slot(current_time) ELSE NoSlot
    ELSE LET event_start == evs[i].start
             event_end == evs[i].end
         IN  IF event_start.kind = "date" THEN Raised
             ELSE IF event_start.kind = "dateTime" /\ event_start.t - current_time >= dur
                  THEN Slot(current_time)
             ELSE IF event_end.kind = "date" THEN Raised
             ELSE ScanEvents(evs, i + 1,
                             IF event_end.kind = "dateTime"
                             THEN Max(current_time, event_end.t)
                             ELSE current_time,
                             dur)

\* now.replace(minute=0, second=0, microsecond=0) + timedelta(hours=1)
NextHour(t) == (t \div 60) * 60 + 60

\* find_free_slot(service, date, duration_mins) called at clock time t;
\* readOk: whether service.events().list(...).execute() returned
FindFreeSlot(readOk, evs, dur, t) ==
    LET r == IF readOk THEN ScanEvents(evs, 1, WindowStart, dur) ELSE Raised
    IN  IF r = Raised THEN Slot(NextHour(t)) ELSE r

----------------------------------------------------------------------------
\* Inputs of the free-slot finder

MaxEvents == 2
MaxCalls == 2

EventTimes == {420, 540, 600, 630, 660, 1170, 1260}
Durations == {30, 45, 60, 90, 600, 720}
Clocks == {550, 610, 1290}

\* The events list(timeMin=08:00, timeMax=20:00) can return: those that end
\* after timeMin and start before timeMax
TimedEvents ==
    {[start |-> DateTime(s), end |-> DateTime(e)] :
        <<s, e>> \in {p \in EventTimes \X EventTimes :
                        p[1] <= p[2] /\ p[1] < WindowEnd /\ p[2] > WindowStart}}
AllDayEvent == [start |-> DateOnly(0), end |-> DateOnly(1440)]
OddEvents == {[start |-> Unparsed, end |-> DateTime(600)],
              [start |-> DateTime(540), end |-> Unparsed]}
CalendarEvents == TimedEvents \cup {AllDayEvent} \cup OddEvents

\* orderBy='startTime'
OrderedByStart(evs) ==
    \A i, j \in 1..Len(evs) :
        (i < j /\ evs[i].start.kind # "none" /\ evs[j].start.kind # "none")
            => evs[i].start.t <= evs[j].start.t

EventLists ==
    UNION {{evs \in [1..n -> CalendarEvents] : OrderedByStart(evs)} : n \in 0..MaxEvents}

SlotInit ==
    /\ events \in EventLists
    /\ duration_mins \in Durations
    /\ calls = <<>>

\* The free-slot finder at rest, in the specifications about other parts
SlotIdle ==
    /\ events = <<>>
    /\ duration_mins = 60
    /\ calls = <<>>

\* One call of find_free_slot on the unchanged list, at a clock time not
\* before the previous call's
CallFindFreeSlot ==
    /\ Len(calls) < MaxCalls
    /\ \E t \in Clocks, readOk \in BOOLEAN :
        /\ Len(calls) > 0 => t >= calls[Len(calls)].at
        /\ calls' = Append(calls, [at |-> t, readOk |-> readOk,
                                   result |-> FindFreeSlot(readOk, events, duration_mins, t)])
    /\ UNCHANGED <<events, duration_mins>>
    /\ UNCHANGED <<convVars, oracleVars, textVars, requestVars>>

SlotNext == CallFindFreeSlot

----------------------------------------------------------------------------
\* Properties of the free-slot finder

\* The moments a slot may start at: every quarter hour of the day
Grid == {t \in 0..1440 : t % 15 = 0}

AllTimed(evs) ==
    \A i \in 1..Len(evs) : evs[i].start.kind = "dateTime" /\ evs[i].end.kind = "dateTime"

\* [t, t + dur) overlaps the event, as the calendar's list(timeMin, timeMax)
\* decides it: the event ends after timeMin and starts before timeMax
Overlaps(t, dur, ev) == ev.start.t < t + dur /\ t < ev.end.t

FreeAt(t, dur, evs) ==
    /\ t >= WindowStart
    /\ t + dur <= WindowEnd
    /\ \A i \in 1..Len(evs) : ~Overlaps(t, dur, evs[i])

EarliestFree(dur, evs) ==
    IF \E t \in Grid : FreeAt(t, dur, evs)
    THEN Slot(CHOOSE t \in Grid : FreeAt(t, dur, evs)
                                  /\ \A u \in Grid : FreeAt(u, dur, evs) => t <= u)
    ELSE NoSlot

\* C1 (as claimed): whatever the calendar read does, a returned slot starts
\* at or after 08:00 and ends at or before 20:00 of the requested date.
C1_SlotWithinWindow ==
    \A i \in 1..Len(calls) :
        calls[i].result.kind = "slot"
            => /\ calls[i].result.t >= WindowStart
               /\ calls[i].result.t + duration_mins <= WindowEnd

\* C2: on a delivered list of timed busy intervals ordered by start, the scan
\* returns the earliest start t >= 08:00 with t + duration <= 20:00 whose
\* [t, t + duration) overlaps no busy interval, and None when there is none.
C2_FirstFitIsEarliestFree ==
    \A i \in 1..Len(calls) :
        (calls[i].readOk /\ AllTimed(events))
            => calls[i].result = EarliestFree(duration_mins, events)

\* C2 witness: a scan over two intervals that moved the cursor past 08:00
C2_Witness ==
    /\ Len(calls) > 0 /\ calls[1].readOk
    /\ Len(events) = 2 /\ AllTimed(events)
    /\ events[2].end.t < events[1].end.t
    /\ calls[1].result.kind = "slot" /\ calls[1].result.t > WindowStart

\* C3: busy 09:00-10:00 and 90 minutes wanted: the slot is 10:00.
C3_NinetyMinutesAfterTen ==
    (events = <<Ev(540, 600)>> /\ duration_mins = 90)
        => \A i \in 1..Len(calls) : calls[i].readOk => calls[i].result = Slot(600)

\* C3 witness: that call was made and the list was delivered
C3_Witness ==
    /\ events = <<Ev(540, 600)>> /\ duration_mins = 90
    /\ Len(calls) > 0 /\ calls[1].readOk /\ calls[1].result = Slot(600)

\* C4 (as claimed): busy 09:00-10:00 and 10:30-11:00 and 45 minutes wanted:
\* the slot is 11:00.
C4_Original_SlotAtEleven ==
    (events = <<Ev(540, 600), Ev(630, 660)>> /\ duration_mins = 45)
        => \A i \in 1..Len(calls) : calls[i].readOk => calls[i].result = Slot(660)

\* C4 (amended): busy 09:00-10:00 and 10:30-11:00 and 45 minutes wanted: the
\* slot is 08:00, because the 60-minute gap 08:00-09:00 is long enough.
C4_SlotAtEight ==
    (events = <<Ev(540, 600), Ev(630, 660)>> /\ duration_mins = 45)
        => \A i \in 1..Len(calls) : calls[i].readOk => calls[i].result = Slot(480)

\* C4 witness: that call was made and the list was delivered
C4_Witness ==
    /\ events = <<Ev(540, 600), Ev(630, 660)>> /\ duration_mins = 45
    /\ Len(calls) > 0 /\ calls[1].readOk /\ calls[1].result = Slot(480)

\* C5 (as claimed): two calls on the unchanged list with the same date and
\* duration whose calendar reads ended the same way return the same result,
\* whatever the clock shows at each call.
C5_Idempotent ==
    \A i, j \in 1..Len(calls) :
        calls[i].readOk = calls[j].readOk => calls[i].result = calls[j].result


(***************************************************************************)
(* Conversation log: routes.add_to_conversation, routes.clear_conversation *)
(***************************************************************************)

\* "Keep only last 10 exchanges"
HistoryCap == 10

\* Variant: the slice keeps the first entries, [:10]
TruncateKeepFirst(h) ==
    IF Len(h) > HistoryCap THEN SubSeq(h, 1, HistoryCap) ELSE h

\* if len(history) > 10: history = history[-10:]
Truncate(h) ==
    IF Len(h) > HistoryCap THEN SubSeq(h, Len(h) - HistoryCap + 1, Len(h)) ELSE h

\* get_conversation_history: session.get('conversation_history', [])
GetConversationHistory(has, h) == IF has THEN h ELSE <<>>

\* The history add_to_conversation leaves in the session
AddTurn(has, h, turn) == Truncate(Append(GetConversationHistory(has, h), turn))

MaxAppends == 12

Turns == {"t1", "t2"}

ConvInit ==
    /\ has_history = FALSE
    /\ conversation_history = <<>>
    /\ appended = <<>>

ConvIdle == ConvInit

AddToConversation ==
    /\ Len(appended) < MaxAppends
    /\ \E turn \in Turns :
        /\ conversation_history' = AddTurn(has_history, conversation_history, turn)
        /\ appended' = Append(appended, turn)
    /\ has_history' = TRUE
    /\ UNCHANGED <<slotVars, oracleVars, textVars, requestVars>>

\* session.pop('conversation_history', None)
ClearConversation ==
    /\ has_history' = FALSE
    /\ conversation_history' = <<>>
    /\ appended' = <<>>
    /\ UNCHANGED <<slotVars, oracleVars, textVars, requestVars>>

ConvNext == AddToConversation \/ ClearConversation

(***************************************************************************)
(* Remote Parser Fallback: deepseek_parser.call_deepseek                   *)
(***************************************************************************)

\* Python's None, and a value that is not None
None == [some |-> FALSE]
Some(v) == [some |-> TRUE, v |-> v]

\* A JSON object's field: absent, null, or a value of some type
Absent == [k |-> "absent"]
Null == [k |-> "null"]
Str(s) == [k |-> "str", s |-> s]
Num(n) == [k |-> "num", n |-> n]

\* A text is the sequence of its words; a word is its leading digits d and
\* the letters w that follow them.  Blanks the text starts or ends with are
\* the part Space.
Word(w) == [d |-> "", w |-> w]
Number(d) == [d |-> d, w |-> ""]
NumberWord(d, w) == [d |-> d, w |-> w]
Space == Word(" ")

\* str.strip()
RECURSIVE LStrip(_)
LStrip(s) == IF s # <<>> /\ s[1] = Space THEN LStrip(Tail(s)) ELSE s
RECURSIVE RStrip(_)
RStrip(s) == IF s # <<>> /\ s[Len(s)] = Space THEN RStrip(SubSeq(s, 1, Len(s) - 1)) ELSE s
Strip(s) == RStrip(LStrip(s))

\* The outcomes of the function's body: a returned 4-tuple, or an exception
Return(title, start_time, duration, msg) ==
    [raised |-> FALSE, title |-> title, start_time |-> start_time,
     duration |-> duration, message |-> msg]
Raise(exc) == [raised |-> TRUE, exc |-> exc]

\* raw_text after the fences are cut ([7:-3] or [3:-3]) is JSON when the
\* payload is and a fence that was opened is closed as well
JsonLoads(resp) ==
    IF resp.payload = "malformed" \/ (resp.fence # "none" /\ ~resp.closed)
    THEN "malformed"
    ELSE resp.payload

\* Lines 88-94: strptime("%Y-%m-%d %H:%M"), then dateparser.parse.  A value
\* that is no string makes strptime raise TypeError.
ParseStartTime(start_time_str) ==
    IF start_time_str.k \in {"absent", "null"} THEN None
    ELSE IF start_time_str.s.fmt = "empty" THEN None
    ELSE IF start_time_str.s.fmt \in {"iso", "natural"} THEN Some(start_time_str.s.t)
    ELSE None

\* Lines 81-101 on a parsed JSON object
ParseComplete(data) ==
    IF data.title.k \in {"null", "num"} THEN Raise("AttributeError")
    ELSE LET title == IF data.title.k = "absent" THEN <<>> ELSE Strip(data.title.s)
             start_time_str == data.start_time
         IN  IF title = <<>>
             THEN Return(None, None, None,
                         Some("Could not extract task title. Please provide more details."))
             ELSE IF start_time_str.k = "num" THEN Raise("TypeError")
             ELSE IF ParseStartTime(start_time_str) = None
             THEN Return(None, None, None,
                         Some("Could not understand the time. Please specify when you'd like to schedule this task."))
             ELSE IF data.duration_minutes.k \in {"null", "str"} THEN Raise("TypeError")
             ELSE Return(Some(title), ParseStartTime(start_time_str),
                         Some(IF data.duration_minutes.k = "absent"
                              THEN 60 ELSE data.duration_minutes.n),
                         None)

\* Lines 62-101: the try block
TryBlock(resp) ==
    IF resp.net = "error" THEN Raise("RequestException")
    ELSE IF resp.body = "not_json" THEN Raise("RequestException")
    ELSE IF resp.body = "no_content" THEN Raise("KeyError")
    ELSE IF JsonLoads(resp) = "malformed" THEN Raise("JSONDecodeError")
    ELSE IF JsonLoads(resp) = "list" THEN Raise("AttributeError")
    ELSE IF resp.data.status = Str("clarification")
         THEN Return(None, None, None,
                     IF resp.data.question.k \in {"absent", "null"}
                     THEN None ELSE Some(resp.data.question.s))
    ELSE ParseComplete(resp.data)

\* Variant: only network errors are caught
ExceptClausesNetworkOnly(r) ==
    IF ~r.raised THEN r
    ELSE IF r.exc = "RequestException"
         THEN Return(None, None, None, Some("Network error: ..."))
    ELSE r

\* Lines 103-108: the except clauses
ExceptClauses(r) ==
    IF ~r.raised THEN r
    ELSE IF r.exc = "RequestException"
         THEN Return(None, None, None, Some("Network error: ..."))
    ELSE IF r.exc = "JSONDecodeError"
         THEN Return(None, None, None,
                     Some("Could not parse response. Please try rephrasing your request."))
    ELSE Return(None, None, None, Some("Error processing request: ..."))

\* call_deepseek(task_prompt, conversation_history)
CallDeepseek(key, resp) ==
    IF ~key THEN Return(None, None, None, Some("API key not configured"))
    ELSE ExceptClauses(TryBlock(resp))

----------------------------------------------------------------------------
\* Inputs of the remote parser fallback

OracleTitles ==
    {<<>>, <<Space>>, <<Space, Word("sync"), Space>>, <<Word("Team"), Word("sync")>>}

\* The start_time strings: "" / "YYYY-MM-DD HH:MM" / one only dateparser reads /
\* one nothing reads; t is the moment the string names
StartTimeStrings ==
    {[fmt |-> "empty", t |-> 0], [fmt |-> "iso", t |-> 2040],
     [fmt |-> "natural", t |-> 2040], [fmt |-> "junk", t |-> 0]}

TitleFields == {Absent, Null} \cup {Str(t) : t \in OracleTitles}
DurationFields == {Absent, Null, Str("an hour"), Num(-30), Num(0), Num(30), Num(180)}
StartTimeFields == {Absent, Null, Num(5)} \cup {Str(x) : x \in StartTimeStrings}
StatusFields == {Absent, Str("complete"), Str("clarification")}
QuestionFields == {Absent, Null, Str(""), Str("When would you like to schedule it?")}

JsonObjects ==
    [status : StatusFields, question : QuestionFields, title : TitleFields,
     duration_minutes : DurationFields, start_time : StartTimeFields]

EmptyObject ==
    [status |-> Absent, question |-> Absent, title |-> Absent,
     duration_minutes |-> Absent, start_time |-> Absent]

\* raw_text starts with no fence, with the json fence or with the plain fence,
\* and (closed) ends with a fence
Fences == {[fence |-> "none", closed |-> FALSE],
           [fence |-> "json", closed |-> TRUE], [fence |-> "json", closed |-> FALSE],
           [fence |-> "plain", closed |-> TRUE], [fence |-> "plain", closed |-> FALSE]}

Response(net, body, f, payload, data) ==
    [net |-> net, body |-> body, fence |-> f.fence, closed |-> f.closed,
     payload |-> payload, data |-> data]

\* net: the POST and raise_for_status() went through, or a RequestException
\* (connection, timeout, non-2xx); body: what response.json() and
\* result["choices"][0]["message"]["content"] find
Responses ==
    {Response("error", "content", f, "dict", EmptyObject) : f \in Fences}
    \cup {Response("ok", b, f, "dict", EmptyObject) :
            b \in {"not_json", "no_content"}, f \in Fences}
    \cup {Response("ok", "content", f, pl, EmptyObject) :
            pl \in {"malformed", "list"}, f \in Fences}
    \cup {Response("ok", "content", f, "dict", d) : f \in Fences, d \in JsonObjects}

OracleInit ==
    /\ api_key \in BOOLEAN
    /\ response \in Responses
    /\ ret = None

OracleIdle ==
    /\ api_key = TRUE
    /\ response = Response("error", "content", [fence |-> "none", closed |-> FALSE],
                           "dict", EmptyObject)
    /\ ret = None

\* One call of call_deepseek
DoCallDeepseek ==
    /\ ret = None
    /\ ret' = Some(CallDeepseek(api_key, response))
    /\ UNCHANGED <<api_key, response>>
    /\ UNCHANGED <<slotVars, convVars, textVars, requestVars>>

(***************************************************************************)
(* Pattern Extractor: planner.extract_task_details and                     *)
(* deepseek_parser.parse_natural_language                                  *)
(*                                                                         *)
(* The text is the sequence of its words (the runs of non-blank            *)
(* characters).  Every pattern starts with (.+?)\s+, so a match starts at  *)
(* the first word and the title is the shortest run of words after which   *)
(* the rest of the pattern matches.                                        *)
(***************************************************************************)

\* str.lower() on the letters the model uses
Lower(w) ==
    CASE w = "HRS" -> "hrs"
      [] w = "Study" -> "study"
      [] w = "Team" -> "team"
      [] w = "Monday" -> "monday"
      [] OTHER -> w

\* int(match.group(n)) of a digit string
IntOf(d) ==
    CASE d = "0" -> 0
      [] d = "2" -> 2
      [] d = "5" -> 5
      [] d = "90" -> 90

\* A number of hours or minutes timedelta cannot hold (OverflowError)
TooBig(d) == d = "999999999999999"

\* What hours?|hrs?|minutes?|mins? matches at the start of the letters w,
\* "" when nothing
UnitPrefix(w) ==
    CASE Lower(w) \in {"hours", "hrs", "minutes", "mins"} -> Lower(w)
      [] Lower(w) \in {"hour", "hourly"} -> "hour"
      [] Lower(w) \in {"hr", "minute", "min"} -> Lower(w)
      [] OTHER -> ""

\* The same when blanks must follow the unit: the letters are the unit
UnitExact(w) == IF UnitPrefix(w) = Lower(w) THEN UnitPrefix(w) ELSE ""

\* What hours?|minutes? matches when blanks must follow the unit
UnitExactHoursMinutes(w) ==
    IF Lower(w) \in {"hours", "hour", "minutes", "minute"} THEN Lower(w) ELSE ""

\* 'hour' in unit or 'hr' in unit
IsHourUnit(unit) == unit \in {"hours", "hour", "hrs", "hr"}

\* "hour" in unit
IsHourUnitStrict(unit) == unit \in {"hours", "hour"}

IsKeyword(tok, keys) == tok.d = "" /\ Lower(tok.w) \in keys

MinOf(S) == CHOOSE x \in S : \A y \in S : x <= y

\* (\d+)\s*(unit) at word i: the digits and the unit in one word, or in two.
\* mode: which unit matcher applies.  next: the word after the unit.
UnitOf(w, mode) ==
    CASE mode = "prefix" -> UnitPrefix(w)
      [] mode = "exact" -> UnitExact(w)
      [] mode = "hours_minutes" -> UnitExactHoursMinutes(w)

NumUnitAt(t, i, mode) ==
    IF i > Len(t) \/ t[i].d = "" THEN [ok |-> FALSE]
    ELSE IF t[i].w # ""
         THEN IF UnitOf(t[i].w, mode) # ""
              THEN [ok |-> TRUE, d |-> t[i].d, unit |-> UnitOf(t[i].w, mode), next |-> i + 1]
              ELSE [ok |-> FALSE]
    ELSE IF i + 1 <= Len(t) /\ t[i + 1].d = "" /\ UnitOf(t[i + 1].w, mode) # ""
         THEN [ok |-> TRUE, d |-> t[i].d, unit |-> UnitOf(t[i + 1].w, mode), next |-> i + 2]
    ELSE [ok |-> FALSE]

\* The outcomes of a local parser: a returned triple, or an exception
Triple(title, start_time, duration) ==
    [raised |-> FALSE, title |-> title, start_time |-> start_time, duration |-> duration]

\* timedelta(hours=n) if hours else timedelta(minutes=n), in minutes
Timedelta(d, hours) == IF hours THEN IntOf(d) * 60 ELSE IntOf(d)

\* The return of a pattern with an explicit duration; resolved is what
\* dateparser.parse makes of the time expression
DurationTriple(title, d, hours, resolved) ==
    IF TooBig(d) THEN Raise("OverflowError")
    ELSE Triple(Some(title), resolved, Some(Timedelta(d, hours)))

\* Pattern 1: (.+?)\s+(?:at|by|@)\s+(.+?)\s+for\s+(\d+)\s*(unit)
ForAfter(t, k) ==
    {m \in (k + 2)..Len(t) : IsKeyword(t[m], {"for"}) /\ NumUnitAt(t, m + 1, "prefix").ok}
Pattern1At(t) ==
    {k \in 2..Len(t) : IsKeyword(t[k], {"at", "by", "@"}) /\ ForAfter(t, k) # {}}

\* Pattern 2: (.+?)\s+for\s+(\d+)\s*(unit)\s+(.+)
Pattern2At(t, mode) ==
    {k \in 2..Len(t) : /\ IsKeyword(t[k], {"for"})
                       /\ NumUnitAt(t, k + 1, mode).ok
                       /\ NumUnitAt(t, k + 1, mode).next <= Len(t)}

\* Pattern 3: (.+?)\s+(?:at|by|@|on)\s+(.+)
Pattern3At(t) ==
    {k \in 2..(Len(t) - 1) : IsKeyword(t[k], {"at", "by", "@", "on"})}

\* extract_task_details(task_str)
ExtractTaskDetails(t, resolved) ==
    IF Pattern1At(t) # {}
    THEN LET k == MinOf(Pattern1At(t))
             m == MinOf(ForAfter(t, k))
             nu == NumUnitAt(t, m + 1, "prefix")
         IN  DurationTriple(SubSeq(t, 1, k - 1), nu.d, IsHourUnit(nu.unit), resolved)
    ELSE IF Pattern2At(t, "exact") # {}
    THEN LET k == MinOf(Pattern2At(t, "exact"))
             nu == NumUnitAt(t, k + 1, "exact")
         IN  DurationTriple(SubSeq(t, 1, k - 1), nu.d, IsHourUnit(nu.unit), resolved)
    ELSE IF Pattern3At(t) # {}
    THEN Triple(Some(SubSeq(t, 1, MinOf(Pattern3At(t)) - 1)), resolved, Some(60))
    ELSE IF t # <<>> THEN Triple(Some(t), None, Some(60))
    ELSE Triple(None, None, None)

\* \w+ followed by blanks: a word of letters and digits only
IsWordToken(tok) == tok.w # "@"

\* (.+?)\s+(tomorrow|today|next\s+\w+)\s+(?:at\s+)?(.+)
DayPartAt(t) ==
    {k \in 2..Len(t) :
        \/ IsKeyword(t[k], {"tomorrow", "today"}) /\ k + 1 <= Len(t)
        \/ /\ IsKeyword(t[k], {"next"})
           /\ k + 2 <= Len(t) /\ IsWordToken(t[k + 1])}

\* parse_natural_language(task_str)
ParseNaturalLanguage(t, resolved) ==
    IF Pattern2At(t, "hours_minutes") # {}
    THEN LET k == MinOf(Pattern2At(t, "hours_minutes"))
             nu == NumUnitAt(t, k + 1, "hours_minutes")
         IN  DurationTriple(SubSeq(t, 1, k - 1), nu.d, IsHourUnitStrict(nu.unit), resolved)
    ELSE IF DayPartAt(t) # {}
    THEN Triple(Some(SubSeq(t, 1, MinOf(DayPartAt(t)) - 1)), resolved, Some(60))
    ELSE Triple(None, None, None)

----------------------------------------------------------------------------
\* Inputs of the local parsers

MaxTokens == 4

ShortAlphabet ==
    {Word("Study"), Word("at"), Word("for"), Word("tomorrow"), Word("hours"), Word("mins"),
     Number("2"), Number("0")}

ShortTasks == UNION {[1..n -> ShortAlphabet] : n \in 0..MaxTokens}

\* "<title> at/by/@/on <time> for <N> <unit>" and "<title> for <N> <unit> <time>"
TemplateTitles == {<<Word("Study")>>, <<Word("Team"), Word("sync")>>}
TemplateTimes ==
    {<<Word("tomorrow")>>, <<NumberWord("5", "pm")>>, <<Word("next"), Word("Monday")>>,
     <<Word("tomorrow"), Word("at"), NumberWord("5", "pm")>>}
TemplateNumbers == {"0", "2", "90", "999999999999999"}
TemplateUnits == {"hours", "hr", "HRS", "mins", "minutes", "hourly"}
TemplateDurations ==
    {<<Number(d), Word(u)>> : d \in TemplateNumbers, u \in TemplateUnits}
        \cup {<<NumberWord(d, u)>> : d \in TemplateNumbers, u \in TemplateUnits}

TemplateTasks ==
    {ti \o <<Word(a)>> \o tm \o <<Word("for")>> \o du :
        ti \in TemplateTitles, a \in {"at", "by", "@", "on"}, tm \in TemplateTimes,
        du \in TemplateDurations}
    \cup {ti \o <<Word("for")>> \o du \o tm :
            ti \in TemplateTitles, du \in TemplateDurations, tm \in TemplateTimes}

Tasks == ShortTasks \cup TemplateTasks

\* dateparser.parse(time_expr): None, a moment to come, a moment gone by
ResolverAnswers == {None, Some(2040), Some(300)}

TextInit ==
    /\ task \in Tasks
    /\ parsed = None

TextIdle ==
    /\ task = <<>>
    /\ parsed = None

DoExtractTaskDetails ==
    /\ parsed = None
    /\ \E resolved \in ResolverAnswers :
        parsed' = Some([fn |-> "extract_task_details",
                        r |-> ExtractTaskDetails(task, resolved)])
    /\ UNCHANGED task
    /\ UNCHANGED <<slotVars, convVars, oracleVars, requestVars>>

\* routes.index hands request.form.get('task', '').strip() to the parser
DoParseNaturalLanguage ==
    /\ parsed = None
    /\ \E resolved \in ResolverAnswers :
        parsed' = Some([fn |-> "parse_natural_language",
                        r |-> ParseNaturalLanguage(task, resolved)])
    /\ UNCHANGED task
    /\ UNCHANGED <<slotVars, convVars, oracleVars, requestVars>>

(***************************************************************************)
(* Request handler: routes.index on a POST, and                            *)
(* calendar_api.create_calendar_event                                      *)
(***************************************************************************)

\* Python truth values: not title, not duration, if clarification_question
TruthyText(x) == x # None /\ x.v # <<>>
TruthyString(x) == x # None /\ x.v # ""
TruthyDuration(x) == x # None /\ x.v # 0
TruthyTime(x) == x # None

NoLocals ==
    [title |-> None, start_time |-> None, duration |-> None,
     clarification_question |-> None, conflicts |-> None, duplicates |-> None,
     created |-> None, slot_calls |-> 0]

\* Lines 59-64: the local parser, then the oracle when a part is missing
ParseTask(t, resolved, key, resp) ==
    LET p == ParseNaturalLanguage(t, resolved)
    IN  IF p.raised THEN p
        ELSE IF TruthyText(p.title) /\ TruthyTime(p.start_time) /\ TruthyDuration(p.duration)
             THEN Return(p.title, p.start_time, p.duration, None)
        ELSE CallDeepseek(key, resp)

\* Variant: a conflict is reported but does not stop the request
ConflictFoundNever(evs) == FALSE

\* Line 116: if events
ConflictFound(evs) == evs # <<>>

\* Line 132: if duplicate_events
DuplicateFound(evs) == evs # <<>>

\* create_calendar_event's validation, lines 45-52: the ValueError it raises,
\* "" when none
InvalidEvent(title, start_time, end_time) ==
    IF title = <<>> \/ Strip(title) = <<>> THEN "Event title is required"
    ELSE IF start_time >= end_time THEN "Start time must be before end time"
    ELSE ""

\* create_calendar_event(service, title, start_time, end_time): the dict it
\* returns and whether insert was called; inserted: whether execute() returned
CreateCalendarEvent(title, start_time, end_time, inserted) ==
    IF InvalidEvent(title, start_time, end_time) # ""
    THEN [success |-> FALSE, called |-> FALSE]
    ELSE [success |-> inserted, called |-> TRUE]

\* What a calendar list query returns
QueryResults == {<<>>, <<"Standup">>, <<"Standup", "Review">>}

\* The request ends with a message; all but the empty-input one are logged
\* by add_to_conversation
Respond(msg, logged) ==
    /\ pc' = "done"
    /\ message' = Some(msg)
    /\ IF logged
       THEN /\ conversation_history' = AddTurn(has_history, conversation_history, msg)
            /\ has_history' = TRUE
            /\ appended' = Append(appended, msg)
       ELSE UNCHANGED convVars

Continue(label) ==
    /\ pc' = label
    /\ UNCHANGED <<message, convVars>>

\* Lines 50-55
ReceivePost ==
    /\ pc = "idle"
    /\ IF task = <<>>
       THEN Respond("Please enter a task description.", FALSE)
       ELSE Continue("parse")
    /\ UNCHANGED <<req, insert_calls, now, slotVars, oracleVars, textVars>>

\* Lines 57-64; an exception ends in the handler's except clause, lines 145-148
Parse ==
    /\ pc = "parse"
    /\ \E resolved \in ResolverAnswers :
        LET r == ParseTask(task, resolved, api_key, response)
        IN  IF r.raised
            THEN Respond("Error: ...", TRUE) /\ UNCHANGED req
            ELSE /\ req' = [req EXCEPT !.title = r.title, !.start_time = r.start_time,
                                       !.duration = r.duration,
                                       !.clarification_question = r.message]
                 /\ Continue("validate")
    /\ UNCHANGED <<insert_calls, now, slotVars, oracleVars, textVars>>

\* Lines 66-80
Validate ==
    /\ pc = "validate"
    /\ IF TruthyString(req.clarification_question)
       THEN Respond("clarification: ...", TRUE)
       ELSE IF ~TruthyText(req.title) \/ ~TruthyDuration(req.duration)
       THEN Respond("I couldn't understand your task.", TRUE)
       ELSE Continue("resolve")
    /\ UNCHANGED <<req, insert_calls, now, slotVars, oracleVars, textVars>>

\* Lines 82-97: without a start time, the free-slot finder for today and then
\* for tomorrow (whose times are a day later)
ResolveStartTime ==
    /\ pc = "resolve"
    /\ IF TruthyTime(req.start_time)
       THEN Continue("past") /\ UNCHANGED req
       ELSE \E evs1 \in {<<>>, <<Ev(480, 1200)>>}, evs2 \in {<<>>, <<Ev(480, 1200)>>},
               ok \in BOOLEAN :
            LET today == FindFreeSlot(ok, evs1, req.duration.v, now)
                tomorrow == FindFreeSlot(ok, evs2, req.duration.v, now - 1440)
                found == IF today.kind = "slot" THEN Some(today.t)
                         ELSE IF tomorrow.kind = "slot" THEN Some(tomorrow.t + 1440)
                         ELSE None
            IN  /\ req' = [req EXCEPT !.start_time = found,
                                      !.slot_calls = IF today.kind = "slot" THEN 1 ELSE 2]
                /\ IF found = None
                   THEN Respond("No available time slots found.", TRUE)
                   ELSE Continue("past")
    /\ UNCHANGED <<insert_calls, now, slotVars, oracleVars, textVars>>

\* Lines 99-104
CheckPast ==
    /\ pc = "past"
    /\ IF req.start_time.v < now
       THEN Respond("Cannot schedule tasks in the past.", TRUE)
       ELSE Continue("conflicts")
    /\ UNCHANGED <<req, insert_calls, now, slotVars, oracleVars, textVars>>

\* Lines 106-121: the list query for [start_time, end_time) may raise
QueryConflicts ==
    /\ pc = "conflicts"
    /\ \E raised \in BOOLEAN, found \in QueryResults :
        IF raised
        THEN Respond("Error: ...", TRUE) /\ UNCHANGED req
        ELSE /\ req' = [req EXCEPT !.conflicts = Some(found)]
             /\ IF ConflictFound(found)
                THEN Respond("Time conflict with: ...", TRUE)
                ELSE Continue("duplicates")
    /\ UNCHANGED <<insert_calls, now, slotVars, oracleVars, textVars>>

\* Lines 123-136: the list query for the title may raise
QueryDuplicates ==
    /\ pc = "duplicates"
    /\ \E raised \in BOOLEAN, found \in QueryResults :
        IF raised
        THEN Respond("Error: ...", TRUE) /\ UNCHANGED req
        ELSE /\ req' = [req EXCEPT !.duplicates = Some(found)]
             /\ IF DuplicateFound(found)
                THEN Respond("You already have a similar event.", TRUE)
                ELSE Continue("create")
    /\ UNCHANGED <<insert_calls, now, slotVars, oracleVars, textVars>>

\* Lines 138-143: create_calendar_event, whose result is not looked at
CreateEvent ==
    /\ pc = "create"
    /\ \E inserted \in BOOLEAN :
        LET end_time == req.start_time.v + req.duration.v
            made == CreateCalendarEvent(req.title.v, req.start_time.v, end_time, inserted)
        IN  /\ req' = [req EXCEPT !.created = Some(made.success)]
            /\ insert_calls' = insert_calls + (IF made.called THEN 1 ELSE 0)
    /\ Respond("Scheduled ...", TRUE)
    /\ UNCHANGED <<now, slotVars, oracleVars, textVars>>

RequestNext ==
    \/ ReceivePost \/ Parse \/ Validate \/ ResolveStartTime
    \/ CheckPast \/ QueryConflicts \/ QueryDuplicates \/ CreateEvent

----------------------------------------------------------------------------
\* Inputs of the request handler

RequestTasks ==
    {<<>>, <<Word("Study")>>,
     <<Word("Study"), Word("tomorrow"), NumberWord("5", "pm")>>,
     <<Word("Study"), Word("for"), Number("2"), Word("hours"), Word("tomorrow")>>,
     <<Word("Study"), Word("for"), Number("0"), Word("hours"), Word("tomorrow")>>,
     <<Word("Study"), Word("for"), Number("2"), Word("hrs"), Word("tomorrow")>>,
     <<Word("Study"), Word("for"), Number("999999999999999"), Word("hours"), Word("tomorrow")>>}

RequestObjects ==
    [status : StatusFields, question : {Absent, Str(""), Str("When would you like to schedule it?")},
     title : {Absent, Str(<<Word("Team"), Word("sync")>>)},
     duration_minutes : {Absent, Num(-30), Num(0), Num(30)},
     start_time : {Absent, Str([fmt |-> "iso", t |-> 2040]), Str([fmt |-> "iso", t |-> 300])}]

RequestResponses ==
    {r \in Responses : r.fence = "none" /\ r.data \in RequestObjects \cup {EmptyObject}}

FullHistory == [i \in 1..HistoryCap |-> "earlier turn"]

RequestInit ==
    /\ pc = "idle"
    /\ now \in {600, 1290}
    /\ req = NoLocals
    /\ message = None
    /\ insert_calls = 0
    /\ task \in RequestTasks
    /\ parsed = None
    /\ api_key \in BOOLEAN
    /\ response \in RequestResponses
    /\ ret = None
    /\ \/ has_history = FALSE /\ conversation_history = <<>> /\ appended = <<>>
       \/ has_history = TRUE /\ conversation_history = FullHistory /\ appended = FullHistory

RequestIdle ==
    /\ pc = "idle"
    /\ now = 600
    /\ req = NoLocals
    /\ message = None
    /\ insert_calls = 0

----------------------------------------------------------------------------
\* Specifications

InitSlot == SlotInit /\ ConvIdle /\ OracleIdle /\ TextIdle /\ RequestIdle
SpecSlot == InitSlot /\ [][SlotNext]_vars

InitConv == ConvInit /\ SlotIdle /\ OracleIdle /\ TextIdle /\ RequestIdle
SpecConv == InitConv /\ [][ConvNext]_vars

InitOracle == OracleInit /\ SlotIdle /\ ConvIdle /\ TextIdle /\ RequestIdle
SpecOracle == InitOracle /\ [][DoCallDeepseek]_vars

\* The parsers that produce a ParsedTask: a text for the local ones, or an
\* oracle response for the remote one
InitParsers ==
    /\ SlotIdle /\ ConvIdle /\ RequestIdle
    /\ (OracleInit /\ TextIdle) \/ (OracleIdle /\ TextInit)
ParsersNext == DoExtractTaskDetails \/ DoParseNaturalLanguage \/ DoCallDeepseek
SpecParsers == InitParsers /\ [][ParsersNext]_vars

InitRequest == RequestInit /\ SlotIdle
SpecRequest == InitRequest /\ [][RequestNext]_vars

----------------------------------------------------------------------------
\* Properties of the conversation log

\* C6: the history never holds more than 10 turns, and once more than 10 were
\* appended since the last clear it is exactly the last 10 of them, in order.
C6_HistoryIsLastTen ==
    LET h == GetConversationHistory(has_history, conversation_history)
        n == Len(appended)
    IN  /\ Len(h) <= HistoryCap
        /\ n > HistoryCap => h = SubSeq(appended, n - HistoryCap + 1, n)

\* C6 witness: twelve turns appended, ten kept
C6_Witness ==
    /\ Len(appended) = HistoryCap + 2
    /\ Len(conversation_history) = HistoryCap
    /\ appended[1] # appended[HistoryCap + 1]

----------------------------------------------------------------------------
\* Properties of the remote parser fallback

\* (None, None, None, <non-empty string>), returned and not raised
FailureTuple(r) ==
    /\ ~r.raised
    /\ r.title = None /\ r.start_time = None /\ r.duration = None
    /\ r.message # None /\ r.message.v # ""

\* (title, start_time, duration, None) with none of the three None
SuccessTuple(r) ==
    /\ ~r.raised
    /\ r.title # None /\ r.start_time # None /\ r.duration # None
    /\ r.message = None

NetworkFailure(resp) == resp.net = "error"

MalformedJson(resp) ==
    /\ resp.net = "ok" /\ resp.body = "content"
    /\ resp.payload = "malformed" \/ (resp.fence # "none" /\ ~resp.closed)

\* A JSON object that is no clarification request
CompletionObject(resp) ==
    /\ resp.net = "ok" /\ resp.body = "content" /\ resp.payload = "dict"
    /\ resp.fence = "none" \/ resp.closed
    /\ resp.data.status # Str("clarification")

Blank(t) == \A i \in 1..Len(t) : t[i] = Space

EmptyTitle(resp) ==
    CompletionObject(resp) /\ resp.data.title.k = "str" /\ Blank(resp.data.title.s)

UnparsableStartTime(resp) ==
    /\ CompletionObject(resp)
    /\ resp.data.start_time.k = "str" /\ resp.data.start_time.s.fmt = "junk"

Missing(resp, field) == CompletionObject(resp) /\ resp.data[field] = Absent

\* C7 (as claimed): malformed JSON, a response missing title, duration_minutes
\* or start_time, an unparsable start_time, an empty title and a network
\* failure all come back as (None, None, None, <non-empty message>), unraised.
C7_Original_FailuresGiveMessage ==
    (ret # None
     /\ (\/ NetworkFailure(response) \/ MalformedJson(response)
         \/ Missing(response, "title") \/ Missing(response, "duration_minutes")
         \/ Missing(response, "start_time")
         \/ UnparsableStartTime(response) \/ EmptyTitle(response)))
        => FailureTuple(ret.v)

\* The responses that lack duration_minutes and nothing else
OnlyDurationMissing(resp) ==
    /\ Missing(resp, "duration_minutes")
    /\ resp.data.title.k = "str" /\ ~Blank(resp.data.title.s)
    /\ resp.data.start_time.k = "str" /\ resp.data.start_time.s.fmt \in {"iso", "natural"}

\* C7 (amended): malformed JSON, a response missing title or start_time, an
\* unparsable start_time, an empty title and a network failure come back as
\* (None, None, None, <non-empty message>), unraised; a response that lacks
\* only duration_minutes is a success with a duration of 60 minutes.
C7_FailuresGiveMessage ==
    /\ (ret # None
        /\ (\/ NetworkFailure(response) \/ MalformedJson(response)
            \/ Missing(response, "title") \/ Missing(response, "start_time")
            \/ UnparsableStartTime(response) \/ EmptyTitle(response)))
           => FailureTuple(ret.v)
    /\ (ret # None /\ api_key /\ OnlyDurationMissing(response))
           => SuccessTuple(ret.v) /\ ret.v.duration = Some(60)

\* C7 witness: the key is set and the oracle sent malformed JSON
C7_Witness ==
    /\ ret # None /\ api_key /\ MalformedJson(response)
    /\ FailureTuple(ret.v)

\* C8 (as claimed): every return is a success (three values, no message) or a
\* failure (three None and a non-empty message string).
C8_TwoShapes ==
    ret # None => SuccessTuple(ret.v) \/ FailureTuple(ret.v)

----------------------------------------------------------------------------
\* Properties of the request handler

\* The messages of a request that failed
FailureMessages ==
    {"Please enter a task description.", "clarification: ...",
     "I couldn't understand your task.", "No available time slots found.",
     "Cannot schedule tasks in the past.", "Time conflict with: ...",
     "You already have a similar event.", "Error: ..."}

\* C9: a request calls insert at most once, as its last step, after the input
\* was non-empty, a title and a duration were parsed, the start time was not
\* in the past and both queries returned no event; a request that ends in a
\* failure message has not called insert.
C9_InsertLastAfterChecks ==
    /\ insert_calls <= 1
    /\ insert_calls = 1
        => /\ pc = "done" /\ message = Some("Scheduled ...")
           /\ task # <<>>
           /\ TruthyText(req.title) /\ TruthyDuration(req.duration)
           /\ req.start_time # None /\ req.start_time.v >= now
           /\ req.conflicts = Some(<<>>) /\ req.duplicates = Some(<<>>)
    /\ (pc = "done" /\ message.v \in FailureMessages) => insert_calls = 0

\* C9 witness: a request that went through every check and inserted the event
C9_Witness ==
    /\ pc = "done" /\ insert_calls = 1 /\ req.created = Some(TRUE)
    /\ req.conflicts = Some(<<>>) /\ req.duplicates = Some(<<>>)

----------------------------------------------------------------------------
\* Properties of the parsed task

\* duration > 0, and start_time + duration does not precede start_time
ValidParsedTask(r) ==
    /\ r.duration.v > 0
    /\ r.start_time # None => r.start_time.v + r.duration.v >= r.start_time.v

\* C10 (as claimed): every task a local parser returns and every success of
\* call_deepseek has a duration above zero, and its end does not precede its
\* start.
C10_PositiveDuration ==
    /\ (parsed # None /\ ~parsed.v.r.raised /\ parsed.v.r.title # None)
        => ValidParsedTask(parsed.v.r)
    /\ (ret # None /\ SuccessTuple(ret.v)) => ValidParsedTask(ret.v)

----------------------------------------------------------------------------
\* Properties of the local parsers

\* None of the time/duration templates matches: neither patterns 1 to 3 of
\* extract_task_details nor the two patterns of parse_natural_language
NoTemplateMatches(t) ==
    /\ Pattern1At(t) = {} /\ Pattern2At(t, "exact") = {} /\ Pattern3At(t) = {}
    /\ Pattern2At(t, "hours_minutes") = {} /\ DayPartAt(t) = {}

\* C11 (as claimed): for a non-empty trimmed input that matches none of the
\* templates, the pattern extractor returns the whole input as the title, no
\* start time and a duration of one hour; it returns (None, None, None) only
\* for an input that is empty after trimming.
C11_FallbackTitle ==
    parsed # None =>
        /\ (task # <<>> /\ NoTemplateMatches(task))
            => parsed.v.r = Triple(Some(task), None, Some(60))
        /\ parsed.v.r = Triple(None, None, None) => task = <<>>

\* The same for extract_task_details alone, which has the fallback template
FallbackTitleOfExtractTaskDetails ==
    (parsed # None /\ parsed.v.fn = "extract_task_details") =>
        /\ (task # <<>> /\ NoTemplateMatches(task))
            => parsed.v.r = Triple(Some(task), None, Some(60))
        /\ parsed.v.r = Triple(None, None, None) => task = <<>>

\* The units of a duration, and those that contain "hour" or "hr"
FormUnits == {"hours", "hr", "HRS", "mins", "minutes"}
HourUnits == {"hours", "hr", "HRS"}

\* "<title> for N <unit> <time>", the number and the unit apart or joined
ForForm(ti, d, u, tm) ==
    {ti \o <<Word("for"), Number(d), Word(u)>> \o tm,
     ti \o <<Word("for"), NumberWord(d, u)>> \o tm}

\* extract_task_details on such an input, N among numbers, returns a
\* non-empty title and N hours or N minutes as the unit says
ExactDuration(numbers) ==
    (parsed # None /\ parsed.v.fn = "extract_task_details") =>
        \A ti \in TemplateTitles, d \in numbers, u \in FormUnits, tm \in TemplateTimes :
            task \in ForForm(ti, d, u, tm) =>
                /\ ~parsed.v.r.raised
                /\ TruthyText(parsed.v.r.title)
                /\ parsed.v.r.duration =
                       Some(IF u \in HourUnits THEN IntOf(d) * 60 ELSE IntOf(d))

\* C12 (as claimed): for every input "<title> for N <unit> <time>" with a
\* non-empty title and a non-negative integer N, extract_task_details returns
\* a non-empty title and a duration of exactly N hours when the unit contains
\* "hour" or "hr", and of exactly N minutes otherwise.
C12_ExactDuration == ExactDuration(TemplateNumbers)

\* The same for the N that a timedelta can hold
ExactDurationInRange == ExactDuration({d \in TemplateNumbers : ~TooBig(d)})

----------------------------------------------------------------------------
\* The gaps of the free-slot finder

\* The cursor after the first i busy intervals: 08:00, then the maximum of
\* the cursor and each interval's end
RECURSIVE CursorAfter(_, _)
CursorAfter(evs, i) ==
    IF i = 0 THEN WindowStart ELSE Max(CursorAfter(evs, i - 1), evs[i].end.t)

\* The starts of the gaps of at least dur minutes: before a busy interval
\* from the cursor, and from the final cursor to 20:00
QualifyingGaps(evs, dur) ==
    {CursorAfter(evs, i - 1) : i \in {j \in 1..Len(evs) :
                                    evs[j].start.t - CursorAfter(evs, j - 1) >= dur}}
        \cup (IF WindowEnd - CursorAfter(evs, Len(evs)) >= dur
              THEN {CursorAfter(evs, Len(evs))} ELSE {})

\* A call's result agrees with the gaps of the day's busy intervals
AgreesWithGaps(call) ==
    /\ call.result = NoSlot <=> QualifyingGaps(events, duration_mins) = {}
    /\ call.result.kind = "slot" => call.result.t \in QualifyingGaps(events, duration_mins)

\* C13 (as claimed): find_free_slot returns None exactly when no gap is at
\* least the required duration, and a returned slot is always the start of
\* such a gap, also when reading the calendar fails.
C13_NoneIffNoGap ==
    AllTimed(events) => \A i \in 1..Len(calls) : AgreesWithGaps(calls[i])

\* The same for the calls whose calendar read returned
NoneIffNoGapOnDeliveredList ==
    AllTimed(events) => \A i \in 1..Len(calls) : calls[i].readOk => AgreesWithGaps(calls[i])

----------------------------------------------------------------------------
\* Properties of the request handler's control flow

\* A request whose parsing gives a title and a duration and leaves the start
\* time open: the text has no time or duration part, and the oracle answers
\* with a completion object that holds a title and a duration of 30 minutes
\* and no start_time
StartTimeLeftOpen ==
    /\ task = <<Word("Study")>>
    /\ api_key /\ response.net = "ok" /\ response.body = "content"
    /\ response.payload = "dict" /\ response.fence = "none"
    /\ response.data.status # Str("clarification")
    /\ response.data.title = Str(<<Word("Team"), Word("sync")>>)
    /\ response.data.duration_minutes = Num(30)
    /\ response.data.start_time = Absent

\* C14 (as claimed): a request that parses to a title and a duration with no
\* explicit start time gets its start time from find_free_slot, so a finished
\* request of that kind has called find_free_slot.
C14_FreeSlotFinderIsCalled ==
    (pc = "done" /\ StartTimeLeftOpen) => req.slot_calls > 0

\* No request calls find_free_slot, whatever the text and the oracle's answer
FindFreeSlotNeverCalled == req.slot_calls = 0

\* After parsing, a request with a title and a duration has a start time
StartTimeSetAfterParsing ==
    (pc \in {"validate", "resolve"} /\ TruthyText(req.title) /\ TruthyDuration(req.duration))
        => TruthyTime(req.start_time)

----------------------------------------------------------------------------
\* Properties of the commit

\* C15 (as claimed): the handler shows and records "Scheduled ..." only when
\* create_calendar_event returned success = True; when it returned success =
\* False the message shown and the turn appended are a failure message.
C15_SuccessOnlyWhenInserted ==
    (pc = "done" /\ req.created # None) =>
        /\ message = Some("Scheduled ...") => req.created = Some(TRUE)
        /\ req.created = Some(FALSE)
            => /\ message.v \in FailureMessages
               /\ conversation_history[Len(conversation_history)] \in FailureMessages

====
